---- MODULE Spec2Model ----
(***************************************************************************)
(* RoadGuard AI pothole-reporting dashboard: the in-memory report store    *)
(* (hooks/useReports.ts), the views that write to it (ReportCard,          *)
(* AuthorityPanel), the submission form (ReportPothole), the App shell,    *)
(* the derived views (Dashboard, Analytics) and the client of the analysis *)
(* service (AIService); and, apart from them, the legacy voting servlet    *)
(* (VoteServlet).                                                          *)
(*                                                                         *)
(* Time is in milliseconds, counted from 2024-01-12T00:00:00 local time so *)
(* that every timestamp of the seed data fits TLC's integers.  A Date is   *)
(* modelled by its millisecond value.  Coordinates are in units of 1e-4    *)
(* degree and confidences in percent, since both are decimals in the code. *)
(* An optional field that is absent from a JavaScript object is absent     *)
(* from the record's DOMAIN.                                               *)
(***************************************************************************)
EXTENDS Integers, Sequences, FiniteSets, TLC

VARIABLES
    reports,          \* useReports: the reports state (a sequence, head first)
    now,              \* the clock: what Date.now() / new Date() reads
    created,          \* how many reports have been created (bounded)
    ops,              \* how many update/delete calls were made (bounded)
    lastOp,           \* history: the last store call and the list it was applied to;
                      \* a form starts with none
    activeTab,        \* App: the tab shown
    formData,         \* ReportPothole: location, description, severity, reportedBy, coordinates
    image,            \* ReportPothole: the selected file, or NoFile
    imagePreview,     \* ReportPothole: the data URL of the file read, or ""
    analyzing,        \* ReportPothole: the pending indicator
    analysisComplete, \* ReportPothole: the completion flag
    aiAnalysis,       \* ReportPothole: the analysis held by the form, or NoAnalysis
    analysisError,    \* ReportPothole: the error message, or ""
    reading,          \* files handed to a FileReader whose onload has not run yet
    inflight,         \* analyzePothole calls of the mounted form not yet settled
    geo,              \* the geolocation request of the mounted form
    uploads,          \* how many images have been selected (bounded)
    navigatorGeolocation, \* whether the platform has navigator.geolocation
    orphans,          \* file reads and requests of a form that has been unmounted
    view,             \* what Dashboard or Analytics rendered last from the reports
    svc,              \* AIService: the call being made and how it ended
    servlet           \* VoteServlet: the votes file and the requests being handled

storeVars == <<reports, created, ops, lastOp>>
clockVars == <<now>>
formVars == <<formData, image, imagePreview, analyzing, analysisComplete,
              aiAnalysis, analysisError, reading, inflight, geo>>
envVars == <<uploads, navigatorGeolocation>>
viewVars == <<view>>
serviceVars == <<svc>>
servletVars == <<servlet>>
sideVars == <<orphans, viewVars, serviceVars, servletVars>>
vars == <<storeVars, clockVars, activeTab, formVars, envVars, sideVars>>

-----------------------------------------------------------------------------
\* Bounds of the model.
MaxAdds == 2        \* SpecStore: addReport calls
MaxStoreOps == 1    \* SpecStore: updateReport and deleteReport calls
MaxSubmits == 1     \* Spec, SpecForm: reports submitted through the form
MaxCalls == 2       \* Spec: store calls made by the form and the views together
MaxUploads == 2     \* SpecForm: images selected in the form

-----------------------------------------------------------------------------
\* Time.
MsPerMinute == 1000 * 60
MsPerHour == 60 * MsPerMinute
MsPerDay == 1000 * 60 * 60 * 24

\* new Date('2024-01-DDTHH:MM:00') as milliseconds since 2024-01-12T00:00.
DateOf(day, hour, minute) ==
    (day - 12) * MsPerDay + hour * MsPerHour + minute * MsPerMinute

\* The clock reading when the application starts: any time after the seed
\* data was written; 2024-01-16T00:00 is taken.
Now0 == DateOf(16, 0, 0)

\* The readings the clock takes: the start and a day later.
ClockReadings == {Now0, Now0 + MsPerDay}

-----------------------------------------------------------------------------
\* types: PotholeReport
Severities == {"low", "medium", "high", "critical"}
Statuses == {"pending", "in-progress", "resolved", "rejected"}

FallbackCoordinates == [lat |-> 407128, lng |-> -740060]

DefaultImageUrl == "pexels-photo-1051838"

\* { ...a, ...b }: the keys of both, b's value where b has the key.
Spread(a, b) ==
    [k \in (DOMAIN a) \cup (DOMAIN b) |-> IF k \in DOMAIN b THEN b[k] ELSE a[k]]

\* const mockReports: PotholeReport[]
mockReports ==
    << [ id |-> "1",
         location |-> "Main Street & 5th Avenue",
         coordinates |-> [lat |-> 407128, lng |-> -740060],
         severity |-> "high",
         status |-> "pending",
         reportedAt |-> DateOf(15, 10, 30),
         reportedBy |-> "John Doe",
         description |-> "Large pothole causing vehicle damage",
         imageUrl |-> "pexels-photo-1051838",
         aiAnalysis |-> [ confidence |-> 92,
                          dimensions |-> [width |-> 45, depth |-> 8, length |-> 60],
                          riskLevel |-> "High Risk" ],
         priority |-> 8 ],
       [ id |-> "2",
         location |-> "Oak Road near School",
         coordinates |-> [lat |-> 407589, lng |-> -739851],
         severity |-> "critical",
         status |-> "in-progress",
         reportedAt |-> DateOf(14, 14, 20),
         reportedBy |-> "Sarah Wilson",
         description |-> "Deep pothole in school zone - safety hazard",
         imageUrl |-> "pexels-photo-2448749",
         aiAnalysis |-> [ confidence |-> 96,
                          dimensions |-> [width |-> 55, depth |-> 12, length |-> 70],
                          riskLevel |-> "Critical Risk" ],
         priority |-> 10,
         assignedTo |-> "Mike Johnson" ],
       [ id |-> "3",
         location |-> "Elm Street Bridge",
         coordinates |-> [lat |-> 407505, lng |-> -739934],
         severity |-> "medium",
         status |-> "resolved",
         reportedAt |-> DateOf(12, 9, 15),
         reportedBy |-> "David Chen",
         description |-> "Medium-sized pothole affecting traffic flow",
         imageUrl |-> "pexels-photo-1051838",
         aiAnalysis |-> [ confidence |-> 88,
                          dimensions |-> [width |-> 30, depth |-> 5, length |-> 40],
                          riskLevel |-> "Medium Risk" ],
         priority |-> 5,
         assignedTo |-> "Lisa Brown",
         resolvedAt |-> DateOf(13, 16, 45) ] >>

-----------------------------------------------------------------------------
\* useReports: the three store operations, as functions of the previous list.

\* Date.now().toString(): the decimal numeral of the clock reading.
DateNowToString(t) == ToString(t)

\* addReport: newReport = { ...report, id: Date.now().toString(), reportedAt: new Date() }
newReport(report, t) ==
    Spread(report, [id |-> DateNowToString(t), reportedAt |-> t])

\* A faulty variant: the created report is appended, [...prev, newReport].
addReport_appended(prev, report, t) == prev \o <<newReport(report, t)>>

\* addReport: setReports(prev => [newReport, ...prev])
addReport(prev, report, t) == <<newReport(report, t)>> \o prev

\* A faulty variant: the comparison is inverted, report.id !== id.
updateReport_inverted(prev, id, updates) ==
    [i \in 1..Len(prev) |->
        IF prev[i].id # id THEN Spread(prev[i], updates) ELSE prev[i]]

\* A faulty variant: the spread is the other way round, { ...updates, ...report }.
updateReport_reportWins(prev, id, updates) ==
    [i \in 1..Len(prev) |->
        IF prev[i].id = id THEN Spread(updates, prev[i]) ELSE prev[i]]

\* A faulty variant: a report that is given a status other than resolved loses
\* its resolvedAt.
updateReport_clearsResolvedAt(prev, id, updates) ==
    [i \in 1..Len(prev) |->
        IF prev[i].id = id
        THEN LET r == Spread(prev[i], updates)
             IN  IF "status" \in DOMAIN updates /\ updates.status # "resolved"
                 THEN [k \in DOMAIN r \ {"resolvedAt"} |-> r[k]]
                 ELSE r
        ELSE prev[i]]

\* updateReport: prev.map(report => report.id === id ? { ...report, ...updates } : report)
updateReport(prev, id, updates) ==
    [i \in 1..Len(prev) |->
        IF prev[i].id = id THEN Spread(prev[i], updates) ELSE prev[i]]

\* A faulty variant: the first report is dropped when the id is not found,
\* as a splice(indexOf(...), 1) would do.
deleteReport_splice(prev, id) ==
    IF id \in {prev[i].id : i \in 1..Len(prev)}
    THEN SelectSeq(prev, LAMBDA r : r.id # id)
    ELSE SubSeq(prev, 1, Len(prev) - 1)

\* deleteReport: prev.filter(report => report.id !== id)
deleteReport(prev, id) == SelectSeq(prev, LAMBDA r : r.id # id)

Ids(rs) == {rs[i].id : i \in 1..Len(rs)}

-----------------------------------------------------------------------------
\* The update objects the views build.

\* A faulty variant: the timestamp is written to reportedAt.
statusUpdates_reportedAt(newStatus, t) ==
    IF newStatus = "resolved"
    THEN [status |-> newStatus, reportedAt |-> t]
    ELSE [status |-> newStatus]

\* A faulty variant: no timestamp is set.
statusUpdates_noTimestamp(newStatus, t) == [status |-> newStatus]

\* A faulty variant: the timestamp is set for every status.
statusUpdates_always(newStatus, t) == [status |-> newStatus, resolvedAt |-> t]

\* ReportCard.handleStatusChange: { status: newStatus }, plus resolvedAt: new Date()
\* when newStatus === 'resolved'.
statusUpdates(newStatus, t) ==
    IF newStatus = "resolved"
    THEN [status |-> newStatus, resolvedAt |-> t]
    ELSE [status |-> newStatus]

\* A faulty variant: 'Unassigned' leaves the status alone.
assignUpdates_unassignedKeepsStatus(assignee) ==
    IF assignee = ""
    THEN [assignedTo |-> assignee]
    ELSE [assignedTo |-> assignee, status |-> "in-progress"]

\* AuthorityPanel.handleAssign: { assignedTo: assignee, status: 'in-progress' }
assignUpdates(assignee) == [assignedTo |-> assignee, status |-> "in-progress"]

\* AuthorityPanel.handlePriorityChange: { priority }
priorityUpdates(priority) == [priority |-> priority]

\* A faulty variant: high gives 7.
severityPriority_high7(severity) ==
    IF severity = "critical" THEN 10
    ELSE IF severity = "high" THEN 7
    ELSE IF severity = "medium" THEN 5
    ELSE 3

\* ReportPothole.handleSubmit: the priority derived from the severity.
severityPriority(severity) ==
    IF severity = "critical" THEN 10
    ELSE IF severity = "high" THEN 8
    ELSE IF severity = "medium" THEN 5
    ELSE 3

-----------------------------------------------------------------------------
\* ReportPothole: the component's state.
NoFile == "null"
NoAnalysis == [present |-> FALSE]

\* useState({ location: '', description: '', severity: 'medium', reportedBy: '',
\*            coordinates: { lat: 0, lng: 0 } })
initialFormData ==
    [ location |-> "", description |-> "", severity |-> "medium",
      reportedBy |-> "", coordinates |-> [lat |-> 0, lng |-> 0] ]

\* A faulty variant: a draft that carries an analysis is created in progress.
submitDraft_inProgress(fd, preview, analysis) ==
    Spread(fd, [ status |-> IF analysis.present THEN "in-progress" ELSE "pending",
                 imageUrl |-> IF preview # "" THEN preview ELSE DefaultImageUrl,
                 priority |-> severityPriority(fd.severity) ])

\* A faulty variant: the analysis held by the form is left out of the draft.
submitDraft_noAnalysis(fd, preview, analysis) ==
    Spread(fd, [ status |-> "pending",
                 imageUrl |-> IF preview # "" THEN preview ELSE DefaultImageUrl,
                 priority |-> severityPriority(fd.severity) ])

\* ReportPothole.handleSubmit: the draft handed to onSubmit.  aiAnalysis: undefined
\* reads like an absent key and is modelled as one.
submitDraft(fd, preview, analysis) ==
    LET base == Spread(fd,
                  [ status |-> "pending",
                    imageUrl |-> IF preview # "" THEN preview ELSE DefaultImageUrl,
                    priority |-> severityPriority(fd.severity) ])
    IN  IF analysis.present
        THEN Spread(base, [aiAnalysis |-> [ confidence |-> analysis.confidence,
                                            dimensions |-> analysis.dimensions,
                                            riskLevel |-> analysis.riskLevel ]])
        ELSE base

-----------------------------------------------------------------------------
\* What an unmounted form leaves behind: the FileReaders that have not called
\* onload and the analyzePothole calls that have not settled go on without it.
orphaned(rs, fs) ==
    {[file |-> r.file, n |-> r.n, stage |-> "reading"] : r \in rs}
        \cup {[file |-> r.file, n |-> r.n, stage |-> "request"] : r \in fs}

\* Nothing has been rendered from the reports yet; no AIService call is made.
NothingRendered == [component |-> "none"]
ServiceIdle == [pc |-> "idle"]

\* VoteServlet: votes.xml does not exist and no request has arrived.
FileAbsent == [exists |-> FALSE]
NoRequests == [file |-> FileAbsent, requests |-> <<>>]

\* The state after construction: the store holds the seed data, the dashboard
\* is shown and no form is mounted.
FormUnmounted ==
    /\ formData = initialFormData
    /\ image = NoFile
    /\ imagePreview = ""
    /\ analyzing = FALSE
    /\ analysisComplete = FALSE
    /\ aiAnalysis = NoAnalysis
    /\ analysisError = ""
    /\ reading = {}
    /\ inflight = {}
    /\ geo = "none"

Init ==
    /\ reports = mockReports
    /\ now = Now0
    /\ created = 0
    /\ ops = 0
    /\ lastOp = [op |-> "none"]
    /\ activeTab = "dashboard"
    /\ FormUnmounted
    /\ uploads = 0
    /\ navigatorGeolocation \in BOOLEAN
    /\ orphans = {}
    /\ view = NothingRendered
    /\ svc = ServiceIdle
    /\ servlet = NoRequests

\* Time passes between two events.
Tick ==
    /\ \E t \in ClockReadings :
          /\ t > now
          /\ now' = t
    /\ UNCHANGED <<storeVars, activeTab, formVars, envVars, sideVars>>

-----------------------------------------------------------------------------
\* The store called directly, as any caller of the hook may call it.

\* Drafts a caller may pass to addReport.
SampleDrafts ==
    { submitDraft([initialFormData EXCEPT !.location = "a", !.severity = s],
                  "", NoAnalysis) : s \in {"low", "critical"} }

\* Update objects a caller may pass to updateReport.
SampleUpdates(t) ==
    { statusUpdates("resolved", t), statusUpdates("rejected", t),
      assignUpdates("Mike Johnson"), priorityUpdates(1),
      [location |-> "moved", description |-> "edited"] }

UnknownId == "no-such-id"

StoreAdd ==
    /\ created < MaxAdds
    /\ \E draft \in SampleDrafts :
          /\ reports' = addReport(reports, draft, now)
          /\ lastOp' = [op |-> "add", id |-> DateNowToString(now),
                        draft |-> draft, before |-> reports]
    /\ created' = created + 1
    /\ UNCHANGED <<ops, clockVars, activeTab, formVars, envVars, sideVars>>

StoreUpdate ==
    /\ ops < MaxStoreOps
    /\ \E id \in Ids(reports) \cup {UnknownId}, updates \in SampleUpdates(now) :
          /\ reports' = updateReport(reports, id, updates)
          /\ lastOp' = [op |-> "update", id |-> id,
                        updates |-> updates, before |-> reports]
    /\ ops' = ops + 1
    /\ UNCHANGED <<created, clockVars, activeTab, formVars, envVars, sideVars>>

StoreDelete ==
    /\ ops < MaxStoreOps
    /\ \E id \in Ids(reports) \cup {UnknownId} :
          /\ reports' = deleteReport(reports, id)
          /\ lastOp' = [op |-> "delete", id |-> id, before |-> reports]
    /\ ops' = ops + 1
    /\ UNCHANGED <<created, clockVars, activeTab, formVars, envVars, sideVars>>

NextStore == StoreAdd \/ StoreUpdate \/ StoreDelete \/ Tick

\* The hook is exercised on its own: the platform plays no part.
InitStore == Init /\ navigatorGeolocation

SpecStore == InitStore /\ [][NextStore]_vars

-----------------------------------------------------------------------------
\* Claims about the store (checked under SpecStore).

\* C1: for every sequence of addReport calls no two reports of the store share
\* an id, two reports created at the same clock reading included.
C1_IdsUnique ==
    \A i, j \in 1..Len(reports) : i # j => reports[i].id # reports[j].id

\* Two reports have been created at one clock reading.
C1_SameReading ==
    \E i, j \in 1..Len(reports) :
        /\ i # j
        /\ reports[i].reportedAt = reports[j].reportedAt
        /\ reports[i].reportedAt >= Now0

\* C2: addReport puts the created report at the head of the list and leaves
\* the reports that were there behind it, unchanged and in the order they
\* had; the list stays in reverse order of creation.
C2_NewestFirst ==
    /\ lastOp.op = "add" =>
          /\ Len(reports) = Len(lastOp.before) + 1
          /\ Head(reports).id = lastOp.id
          /\ \A k \in DOMAIN lastOp.draft : Head(reports)[k] = lastOp.draft[k]
          /\ Tail(reports) = lastOp.before
    /\ \A i, j \in 1..Len(reports) :
          i < j => reports[i].reportedAt >= reports[j].reportedAt

\* A second report was created and stands ahead of the first and of the seeds.
C2_Witness ==
    /\ lastOp.op = "add"
    /\ Len(lastOp.before) > Len(mockReports)
    /\ Head(reports).reportedAt > reports[2].reportedAt

\* C3: updateReport with an id that matches no report leaves the list as it was.
C3_UnknownIdNoChange ==
    (lastOp.op = "update" /\ lastOp.id \notin Ids(lastOp.before))
        => reports = lastOp.before

\* updateReport was called with an unknown id on a list holding a created report.
C3_Witness ==
    /\ lastOp.op = "update"
    /\ lastOp.id \notin Ids(lastOp.before)
    /\ Len(lastOp.before) > Len(mockReports)

\* C4: updateReport with a matching id gives the matching report exactly the
\* fields passed, keeps its other fields, and keeps every other report, the
\* length of the list and its order.
C4_UpdateFrame ==
    (lastOp.op = "update" /\ lastOp.id \in Ids(lastOp.before)) =>
        /\ Len(reports) = Len(lastOp.before)
        /\ \A i \in 1..Len(reports) :
              LET old == lastOp.before[i]
                  new == reports[i]
              IN  IF old.id = lastOp.id
                  THEN /\ DOMAIN new = (DOMAIN old) \cup (DOMAIN lastOp.updates)
                       /\ \A k \in DOMAIN lastOp.updates : new[k] = lastOp.updates[k]
                       /\ \A k \in (DOMAIN old) \ (DOMAIN lastOp.updates) :
                             new[k] = old[k]
                  ELSE new = old

\* updateReport changed a report that is not at the head of the list.
C4_Witness ==
    /\ lastOp.op = "update"
    /\ lastOp.id \in Ids(lastOp.before)
    /\ Head(lastOp.before).id # lastOp.id
    /\ reports # lastOp.before
    /\ "resolvedAt" \in DOMAIN lastOp.updates

-----------------------------------------------------------------------------
\* The application: App, the views and the submission form.

Tabs == {"dashboard", "report", "authority", "analytics"}

\* What the user may type into a text input.
TextSamples == {"", "a"}

\* Files the user may select.
Files == {"f1", "f2"}

\* Positions the platform may report.
Positions == {[lat |-> 515074, lng |-> -1278]}

\* reader.result: the data URL of a file.
dataUrl(file) == "data:" \o file

\* What aiService.analyzePothole may resolve to for a file.
analysisOf(file) ==
    [ present |-> TRUE,
      file |-> file,
      confidence |-> IF file = "f1" THEN 81 ELSE 93,
      severity |-> IF file = "f1" THEN "low" ELSE "critical",
      dimensions |-> IF file = "f1"
                     THEN [width |-> 21, length |-> 26, depth |-> 4]
                     ELSE [width |-> 69, length |-> 84, depth |-> 17],
      riskLevel |-> IF file = "f1" THEN "Low Risk" ELSE "Critical Risk",
      priority |-> IF file = "f1" THEN 2 ELSE 9 ]

AnalysisFailedMessage == "Failed to analyze image. Please try again."

\* AuthorityPanel, the priority select: [...Array(10)].map((_, i) => i + 1)
ArrayLength == 10

\* A faulty variant: the options are the indexes, 0 to 9.
PriorityOptions_zeroBased == {i : i \in 0..(ArrayLength - 1)}

PriorityOptions == {i + 1 : i \in 0..(ArrayLength - 1)}

\* AuthorityPanel, the assign select: the option values.
AssignOptions ==
    {"", "Mike Johnson", "Sarah Wilson", "David Chen", "Lisa Brown"}

\* The assignees the model selects.
SampleAssignees == {a \in AssignOptions : a \in {"", "Sarah Wilson"}}

\* The priorities the model selects: the lowest and the highest option.
SamplePriorities ==
    {p \in PriorityOptions :
        \/ \A q \in PriorityOptions : p <= q
        \/ \A q \in PriorityOptions : p >= q}

\* The option's value as the DOM holds it, and parseInt(e.target.value).
optionValue(n) == ToString(n)
parseInt(str) == CHOOSE n \in 0..(10 * ArrayLength) : ToString(n) = str

\* report.assignedTo || ''
assignedToOrEmpty(r) == IF "assignedTo" \in DOMAIN r THEN r.assignedTo ELSE ""

\* A faulty variant: without navigator.geolocation nothing is set.
mountedFormData_noFallback == initialFormData

\* The form once mounted, its mount effect having run getCurrentLocation:
\* without navigator.geolocation the fallback coordinates are set at once,
\* otherwise getCurrentPosition has been called and a callback is awaited.
mountedFormData ==
    IF navigatorGeolocation
    THEN initialFormData
    ELSE [initialFormData EXCEPT !.coordinates = FallbackCoordinates]

mountedGeo == IF navigatorGeolocation THEN "pending" ELSE "none"

\* App: setActiveTab(id).  Leaving the report tab unmounts the form and its
\* state is gone; entering it mounts a new form, whose history starts empty.
SetActiveTab ==
    \E tab \in Tabs :
        /\ tab # activeTab
        /\ tab = "report" => (created < MaxSubmits /\ created + ops < MaxCalls)
        /\ activeTab' = tab
        /\ image' = NoFile
        /\ imagePreview' = ""
        /\ analyzing' = FALSE
        /\ analysisComplete' = FALSE
        /\ aiAnalysis' = NoAnalysis
        /\ analysisError' = ""
        /\ reading' = {}
        /\ inflight' = {}
        /\ orphans' = orphans \cup orphaned(reading, inflight)
        /\ IF tab = "report"
           THEN /\ formData' = mountedFormData
                /\ geo' = mountedGeo
                /\ lastOp' = [op |-> "none"]
           ELSE /\ formData' = initialFormData
                /\ geo' = "none"
                /\ lastOp' = lastOp
        /\ UNCHANGED <<reports, created, ops, clockVars, envVars, viewVars,
                       serviceVars, servletVars>>

\* getCurrentLocation, the success callback.
GeoSuccess ==
    /\ activeTab = "report"
    /\ geo = "pending"
    /\ \E position \in Positions :
          formData' = [formData EXCEPT !.coordinates = position]
    /\ geo' = "done"
    /\ UNCHANGED <<storeVars, clockVars, activeTab, image, imagePreview, analyzing,
                   analysisComplete, aiAnalysis, analysisError, reading, inflight,
                   envVars, sideVars>>

\* getCurrentLocation, the error callback (denied, unavailable, timeout).
GeoError ==
    /\ activeTab = "report"
    /\ geo = "pending"
    /\ formData' = [formData EXCEPT !.coordinates = FallbackCoordinates]
    /\ geo' = "done"
    /\ UNCHANGED <<storeVars, clockVars, activeTab, image, imagePreview, analyzing,
                   analysisComplete, aiAnalysis, analysisError, reading, inflight,
                   envVars, sideVars>>

\* The onChange handlers of the location, description and reporter inputs.
SetLocation ==
    /\ activeTab = "report"
    /\ \E v \in TextSamples :
          /\ v # formData.location
          /\ formData' = [formData EXCEPT !.location = v]
    /\ UNCHANGED <<storeVars, clockVars, activeTab, image, imagePreview, analyzing,
                   analysisComplete, aiAnalysis, analysisError, reading, inflight,
                   geo, envVars, sideVars>>

SetDescription ==
    /\ activeTab = "report"
    /\ \E v \in TextSamples :
          /\ v # formData.description
          /\ formData' = [formData EXCEPT !.description = v]
    /\ UNCHANGED <<storeVars, clockVars, activeTab, image, imagePreview, analyzing,
                   analysisComplete, aiAnalysis, analysisError, reading, inflight,
                   geo, envVars, sideVars>>

SetReportedBy ==
    /\ activeTab = "report"
    /\ \E v \in TextSamples :
          /\ v # formData.reportedBy
          /\ formData' = [formData EXCEPT !.reportedBy = v]
    /\ UNCHANGED <<storeVars, clockVars, activeTab, image, imagePreview, analyzing,
                   analysisComplete, aiAnalysis, analysisError, reading, inflight,
                   geo, envVars, sideVars>>

\* The onChange handler of the severity select.
SetSeverity ==
    /\ activeTab = "report"
    /\ \E s \in Severities :
          /\ s # formData.severity
          /\ formData' = [formData EXCEPT !.severity = s]
    /\ UNCHANGED <<storeVars, clockVars, activeTab, image, imagePreview, analyzing,
                   analysisComplete, aiAnalysis, analysisError, reading, inflight,
                   geo, envVars, sideVars>>

\* handleImageUpload: setImage(file) and reader.readAsDataURL(file).
handleImageUpload ==
    /\ activeTab = "report"
    /\ uploads < MaxUploads
    /\ \E file \in Files :
          /\ image' = file
          /\ reading' = reading \cup {[file |-> file, n |-> uploads + 1]}
    /\ uploads' = uploads + 1
    /\ UNCHANGED <<storeVars, clockVars, activeTab, formData, imagePreview, analyzing,
                   analysisComplete, aiAnalysis, analysisError, inflight, geo,
                   navigatorGeolocation, sideVars>>

\* reader.onload: setImagePreview(reader.result) and performAIAnalysis(file) up
\* to its await: setAnalyzing(true), setAnalysisComplete(false),
\* setAnalysisError('') and the request is sent.
readerOnload ==
    /\ activeTab = "report"
    /\ \E r \in reading :
          /\ reading' = reading \ {r}
          /\ imagePreview' = dataUrl(r.file)
          /\ inflight' = inflight \cup {r}
    /\ analyzing' = TRUE
    /\ analysisComplete' = FALSE
    /\ analysisError' = ""
    /\ UNCHANGED <<storeVars, clockVars, activeTab, formData, image, aiAnalysis,
                   geo, envVars, sideVars>>

\* A faulty variant: the response of a call made for an image that is no longer
\* the last one selected is dropped.
analysisResolved_latestOnly ==
    /\ activeTab = "report"
    /\ \E r \in inflight :
          /\ inflight' = inflight \ {r}
          /\ IF r.n = uploads
             THEN /\ aiAnalysis' = analysisOf(r.file)
                  /\ analysisComplete' = TRUE
                  /\ analyzing' = FALSE
             ELSE UNCHANGED <<aiAnalysis, analysisComplete, analyzing>>
    /\ UNCHANGED <<storeVars, clockVars, activeTab, formData, image, imagePreview,
                   analysisError, reading, geo, envVars, sideVars>>

\* performAIAnalysis after the await, the request having resolved:
\* setAiAnalysis(analysis), setAnalysisComplete(true), finally setAnalyzing(false).
analysisResolved ==
    /\ activeTab = "report"
    /\ \E r \in inflight :
          /\ inflight' = inflight \ {r}
          /\ aiAnalysis' = analysisOf(r.file)
    /\ analysisComplete' = TRUE
    /\ analyzing' = FALSE
    /\ UNCHANGED <<storeVars, clockVars, activeTab, formData, image, imagePreview,
                   analysisError, reading, geo, envVars, sideVars>>

\* A faulty variant: without the finally block, the pending indicator stays.
analysisRejected_noFinally ==
    /\ activeTab = "report"
    /\ \E r \in inflight : inflight' = inflight \ {r}
    /\ analysisError' = AnalysisFailedMessage
    /\ analysisComplete' = FALSE
    /\ UNCHANGED <<storeVars, clockVars, activeTab, formData, image, imagePreview,
                   analyzing, aiAnalysis, reading, geo, envVars, sideVars>>

\* performAIAnalysis after the await, the request having thrown:
\* setAnalysisError(...), setAnalysisComplete(false), finally setAnalyzing(false).
analysisRejected ==
    /\ activeTab = "report"
    /\ \E r \in inflight : inflight' = inflight \ {r}
    /\ analysisError' = AnalysisFailedMessage
    /\ analysisComplete' = FALSE
    /\ analyzing' = FALSE
    /\ UNCHANGED <<storeVars, clockVars, activeTab, formData, image, imagePreview,
                   aiAnalysis, reading, geo, envVars, sideVars>>

\* The state of the form as a record, the way handleSubmit sees it.
formState ==
    [ formData |-> formData, image |-> image, imagePreview |-> imagePreview,
      aiAnalysis |-> aiAnalysis, analyzing |-> analyzing,
      analysisComplete |-> analysisComplete, analysisError |-> analysisError ]

\* The status lines ReportPothole renders under the preview: all three sit
\* inside the imagePreview ? (...) branch.
statusIndicators(f) ==
    [ analyzing |-> f.imagePreview # "" /\ f.analyzing,
      complete  |-> f.imagePreview # "" /\ f.analysisComplete /\ f.aiAnalysis.present,
      error     |-> f.imagePreview # "" /\ f.analysisError # "" ]

NoIndicator == [analyzing |-> FALSE, complete |-> FALSE, error |-> FALSE]

\* A faulty variant: the preview is not cleared.
resetForm_keepsPreview(f) ==
    [f EXCEPT !.formData = initialFormData, !.image = NoFile,
              !.aiAnalysis = NoAnalysis, !.analysisComplete = FALSE]

\* handleSubmit, its own setters after onSubmit: setFormData(initial),
\* setImage(null), setImagePreview(''), setAiAnalysis(null),
\* setAnalysisComplete(false).  analyzing and analysisError have no setter
\* call here.
resetForm(f) ==
    [f EXCEPT !.formData = initialFormData, !.image = NoFile,
              !.imagePreview = "", !.aiAnalysis = NoAnalysis,
              !.analysisComplete = FALSE]

\* The form is submitted: the browser lets the submit event through only when
\* the three required inputs are filled.  handleSubmit hands the draft to
\* App.handleReportSubmit, which calls addReport and setActiveTab('dashboard');
\* handleSubmit then resets its state and, the tab having changed, the form
\* is unmounted.
handleSubmit ==
    /\ activeTab = "report"
    /\ created < MaxSubmits
    /\ created + ops < MaxCalls
    /\ formData.location # ""
    /\ formData.description # ""
    /\ formData.reportedBy # ""
    /\ LET draft == submitDraft(formData, imagePreview, aiAnalysis)
       IN  /\ reports' = addReport(reports, draft, now)
           /\ lastOp' = [ op |-> "add", via |-> "handleSubmit",
                          id |-> DateNowToString(now), draft |-> draft,
                          before |-> reports, time |-> now,
                          form |-> formState, reset |-> resetForm(formState) ]
    /\ created' = created + 1
    /\ activeTab' = "dashboard"
    /\ formData' = initialFormData
    /\ image' = NoFile
    /\ imagePreview' = ""
    /\ analyzing' = FALSE
    /\ analysisComplete' = FALSE
    /\ aiAnalysis' = NoAnalysis
    /\ analysisError' = ""
    /\ reading' = {}
    /\ inflight' = {}
    /\ orphans' = orphans \cup orphaned(reading, inflight)
    /\ geo' = "none"
    /\ UNCHANGED <<ops, clockVars, envVars, viewVars, serviceVars, servletVars>>

\* ReportCard (shown by the dashboard), the status select: handleStatusChange.
handleStatusChange ==
    /\ activeTab = "dashboard"
    /\ created + ops < MaxCalls
    /\ \E i \in 1..Len(reports), newStatus \in Statuses :
          /\ newStatus # reports[i].status
          /\ reports' = updateReport(reports, reports[i].id,
                                     statusUpdates(newStatus, now))
          /\ lastOp' = [ op |-> "update", via |-> "handleStatusChange",
                         id |-> reports[i].id, arg |-> newStatus,
                         updates |-> statusUpdates(newStatus, now),
                         before |-> reports, time |-> now ]
    /\ ops' = ops + 1
    /\ UNCHANGED <<created, clockVars, activeTab, formVars, envVars, sideVars>>

\* AuthorityPanel, the assign select: handleAssign.
handleAssign ==
    /\ activeTab = "authority"
    /\ created + ops < MaxCalls
    /\ \E i \in 1..Len(reports), assignee \in SampleAssignees :
          /\ assignee # assignedToOrEmpty(reports[i])
          /\ reports' = updateReport(reports, reports[i].id, assignUpdates(assignee))
          /\ lastOp' = [ op |-> "update", via |-> "handleAssign",
                         id |-> reports[i].id, arg |-> assignee,
                         updates |-> assignUpdates(assignee),
                         before |-> reports, time |-> now ]
    /\ ops' = ops + 1
    /\ UNCHANGED <<created, clockVars, activeTab, formVars, envVars, sideVars>>

\* AuthorityPanel, the priority select: handlePriorityChange.
handlePriorityChange ==
    /\ activeTab = "authority"
    /\ created + ops < MaxCalls
    /\ \E i \in 1..Len(reports), option \in SamplePriorities :
          LET priority == parseInt(optionValue(option))
          IN  /\ option # reports[i].priority
              /\ reports' = updateReport(reports, reports[i].id,
                                         priorityUpdates(priority))
              /\ lastOp' = [ op |-> "update", via |-> "handlePriorityChange",
                             id |-> reports[i].id, arg |-> priority,
                             updates |-> priorityUpdates(priority),
                             before |-> reports, time |-> now ]
    /\ ops' = ops + 1
    /\ UNCHANGED <<created, clockVars, activeTab, formVars, envVars, sideVars>>

\* The application used without selecting an image: the form is filled and
\* submitted, and the dashboard and the authority panel change the reports.
Next ==
    \/ Tick
    \/ SetActiveTab
    \/ GeoSuccess
    \/ GeoError
    \/ SetLocation
    \/ SetDescription
    \/ SetReportedBy
    \/ SetSeverity
    \/ handleSubmit
    \/ handleStatusChange
    \/ handleAssign
    \/ handlePriorityChange

Spec == Init /\ [][Next]_vars

\* One session of the submission form, from its mounting on the freshly
\* started application to its submission: the form is filled, images are
\* selected and analysed, and the form is submitted.
InitForm ==
    /\ reports = mockReports
    /\ now = Now0
    /\ created = 0
    /\ ops = 0
    /\ lastOp = [op |-> "none"]
    /\ uploads = 0
    /\ navigatorGeolocation \in BOOLEAN
    /\ orphans = {}
    /\ view = NothingRendered
    /\ svc = ServiceIdle
    /\ servlet = NoRequests
    /\ activeTab = "report"
    /\ formData = mountedFormData
    /\ geo = mountedGeo
    /\ image = NoFile
    /\ imagePreview = ""
    /\ analyzing = FALSE
    /\ analysisComplete = FALSE
    /\ aiAnalysis = NoAnalysis
    /\ analysisError = ""
    /\ reading = {}
    /\ inflight = {}

\* A FileReader or a request left behind by the unmounted form goes on: the
\* reader calls onload, whose performAIAnalysis sends the request, and the
\* request settles.  The state setters of the unmounted form change nothing.
orphanSettled ==
    /\ \E o \in orphans :
          orphans' = IF o.stage = "reading"
                     THEN (orphans \ {o}) \cup {[o EXCEPT !.stage = "request"]}
                     ELSE orphans \ {o}
    /\ UNCHANGED <<storeVars, clockVars, activeTab, formVars, envVars,
                   viewVars, serviceVars, servletVars>>

NextForm ==
    \/ Tick
    \/ GeoSuccess
    \/ GeoError
    \/ SetLocation
    \/ SetDescription
    \/ SetReportedBy
    \/ SetSeverity
    \/ handleImageUpload
    \/ readerOnload
    \/ analysisResolved
    \/ analysisRejected
    \/ handleSubmit
    \/ orphanSettled

SpecForm == InitForm /\ [][NextForm]_vars

-----------------------------------------------------------------------------
\* Claims about the views and the submission flow.

SeedIds == Ids(mockReports)

IsResolved(r) == r.status = "resolved"
HasResolvedAt(r) == "resolvedAt" \in DOMAIN r

\* C5: a report keeps the id and the reportedAt it was created with: every
\* step (a submit, a status change, a priority change, an assignment) leaves
\* each report that was in the store in the store, with both fields as they
\* were; a created report goes ahead of them.
C5_IdentityImmutable ==
    [][ /\ Len(reports') >= Len(reports)
        /\ \A i \in 1..Len(reports) :
              LET j == i + (Len(reports') - Len(reports))
              IN  /\ reports'[j].id = reports[i].id
                  /\ reports'[j].reportedAt = reports[i].reportedAt ]_vars

\* A view has changed a report created by submission.
C5_Witness ==
    /\ lastOp.op = "update"
    /\ lastOp.id \notin SeedIds
    /\ reports # lastOp.before
    /\ \E i \in 1..Len(reports) :
          /\ reports[i].id = lastOp.id
          /\ reports[i].reportedAt < now

\* C6 as stated: in every reachable state a report has a resolvedAt if and
\* only if its status is resolved.
C6_ResolvedAtIffResolved ==
    \A i \in 1..Len(reports) : HasResolvedAt(reports[i]) <=> IsResolved(reports[i])

\* C6 as amended: in every reachable state a report whose status is resolved
\* has a resolvedAt (a report moved away from resolved keeps its resolvedAt,
\* so the converse fails).
C6_ResolvedHasResolvedAt ==
    \A i \in 1..Len(reports) : IsResolved(reports[i]) => HasResolvedAt(reports[i])

\* A report that was not resolved has been resolved through the dashboard.
C6_Witness ==
    /\ lastOp.op = "update"
    /\ lastOp.via = "handleStatusChange"
    /\ \E i \in 1..Len(reports) :
          /\ reports[i].id = lastOp.id
          /\ IsResolved(reports[i])
          /\ ~HasResolvedAt(lastOp.before[i])

\* C7: the status select of a report card, set to resolved, sends status
\* resolved together with resolvedAt = the current time in one update, and the
\* report then has both; set to another status it sends the status alone.
C7_StatusChange ==
    (lastOp.op = "update" /\ lastOp.via = "handleStatusChange") =>
        /\ IF lastOp.arg = "resolved"
           THEN lastOp.updates = [status |-> "resolved", resolvedAt |-> lastOp.time]
           ELSE lastOp.updates = [status |-> lastOp.arg]
        /\ \A i \in 1..Len(reports) :
              lastOp.before[i].id = lastOp.id =>
                  /\ reports[i].status = lastOp.arg
                  /\ lastOp.arg = "resolved" =>
                        /\ HasResolvedAt(reports[i])
                        /\ reports[i].resolvedAt = lastOp.time

\* A report resolved earlier has been resolved again a day later: its
\* resolvedAt is the later reading.
C7_Witness ==
    /\ lastOp.op = "update"
    /\ lastOp.via = "handleStatusChange"
    /\ lastOp.arg = "resolved"
    /\ lastOp.time > Now0
    /\ \E i \in 1..Len(reports) :
          /\ reports[i].id = lastOp.id
          /\ HasResolvedAt(lastOp.before[i])
          /\ lastOp.before[i].resolvedAt < reports[i].resolvedAt

\* C8: a report created by submission has priority 10 for severity critical,
\* 8 for high, 5 for medium and 3 for low, the severity being the form's.
C8_DefaultPriority ==
    (lastOp.op = "add" /\ lastOp.via = "handleSubmit") =>
        LET r == Head(reports)
        IN  /\ r.severity = lastOp.form.formData.severity
            /\ r.severity = "critical" => r.priority = 10
            /\ r.severity = "high" => r.priority = 8
            /\ r.severity = "medium" => r.priority = 5
            /\ r.severity = "low" => r.priority = 3

\* A report of severity high has been submitted.
C8_Witness ==
    /\ lastOp.op = "add"
    /\ lastOp.via = "handleSubmit"
    /\ Head(reports).severity = "high"
    /\ Head(reports).priority = 8

\* C9: a report created by submission enters the store with status pending,
\* without assignedTo and without resolvedAt, whatever the form holds and
\* whatever the state of the analysis when it is submitted.
C9_CreatedPending ==
    (lastOp.op = "add" /\ lastOp.via = "handleSubmit") =>
        LET r == Head(reports)
        IN  /\ r.id = lastOp.id
            /\ r.status = "pending"
            /\ "assignedTo" \notin DOMAIN r
            /\ "resolvedAt" \notin DOMAIN r

\* The form was submitted while an analysis was outstanding, with the result
\* of an earlier analysis in hand.
C9_Witness ==
    /\ lastOp.op = "add"
    /\ lastOp.via = "handleSubmit"
    /\ lastOp.form.analyzing
    /\ lastOp.form.aiAnalysis.present
    /\ "aiAnalysis" \in DOMAIN Head(reports)
    /\ Head(reports).status = "pending"

\* C10: in every reachable state every report's priority is an integer from
\* 1 to 10.
C10_PriorityRange ==
    \A i \in 1..Len(reports) : reports[i].priority \in 1..10

\* The authority has changed the priority of a submitted report.
C10_Witness ==
    /\ lastOp.op = "update"
    /\ lastOp.via = "handlePriorityChange"
    /\ lastOp.id \notin SeedIds
    /\ \E i \in 1..Len(reports) :
          /\ reports[i].id = lastOp.id
          /\ reports[i].priority = 1
          /\ lastOp.before[i].priority = 10

-----------------------------------------------------------------------------
\* The derived views: Dashboard and Analytics are functions of the reports
\* they are given.

MaxReports == 4     \* SpecViews: the reports of a store handed to a view

\* Math.round(num / den) for den > 0: the nearest integer, a half going up.
MathRound(num, den) == (2 * num + den) \div (2 * den)

\* Math.floor(num / den) for den > 0.
MathFloor(num, den) == num \div den

\* A faulty variant: reports of equal priority go oldest first.
compare_oldestFirst(a, b) ==
    IF a.priority # b.priority
    THEN b.priority - a.priority
    ELSE a.reportedAt - b.reportedAt

\* Dashboard.sortedReports, the comparator: negative when a goes before b.
compare(a, b) ==
    IF a.priority # b.priority
    THEN b.priority - a.priority
    ELSE b.reportedAt - a.reportedAt

\* Array.prototype.sort with the comparator: a stable sort, so an element goes
\* behind the elements it does not have to precede.
RECURSIVE insertSorted(_, _)
insertSorted(x, sorted) ==
    IF sorted = <<>> THEN <<x>>
    ELSE IF compare(Head(sorted), x) <= 0
         THEN <<Head(sorted)>> \o insertSorted(x, Tail(sorted))
         ELSE <<x>> \o sorted

RECURSIVE arraySort(_)
arraySort(arr) ==
    IF arr = <<>> THEN <<>>
    ELSE insertSorted(arr[Len(arr)], arraySort(SubSeq(arr, 1, Len(arr) - 1)))

\* A faulty variant: reports.sort(...) without the copy; sort works in place,
\* so the array of the store is the one that gets sorted.
DashboardRender_inPlace(rs) ==
    [reports |-> arraySort(rs), sortedReports |-> arraySort(rs)]

\* Dashboard: const sortedReports = [...reports].sort(...).  The two arrays
\* after the statement: the copy is sorted in place, the array of the store
\* is not touched.
DashboardRender(rs) ==
    LET copy == rs
    IN  [reports |-> rs, sortedReports |-> arraySort(copy)]

\* Analytics: totalReports and resolvedReports.
totalReports(rs) == Len(rs)
resolvedReports(rs) == Len(SelectSeq(rs, LAMBDA r : r.status = "resolved"))

\* A faulty variant: the percentage is cut off, Math.floor.
resolutionRate_floor(rs) ==
    IF totalReports(rs) > 0
    THEN MathFloor(resolvedReports(rs) * 100, totalReports(rs))
    ELSE 0

\* Analytics, the resolution rate shown:
\* totalReports > 0 ? Math.round((resolvedReports / totalReports) * 100) : 0
resolutionRate(rs) ==
    IF totalReports(rs) > 0
    THEN MathRound(resolvedReports(rs) * 100, totalReports(rs))
    ELSE 0

\* A faulty variant: the days are rounded, Math.round.
wholeDays_rounded(r) == MathRound(r.resolvedAt - r.reportedAt, MsPerDay)

\* Math.floor((r.resolvedAt.getTime() - r.reportedAt.getTime()) / (1000*60*60*24))
wholeDays(r) == MathFloor(r.resolvedAt - r.reportedAt, MsPerDay)

\* .reduce((sum, r) => sum + days, 0)
RECURSIVE reduceDays(_, _)
reduceDays(rs, sum) ==
    IF rs = <<>> THEN sum
    ELSE reduceDays(Tail(rs), sum + wholeDays(Head(rs)))

\* Analytics.avgResolutionTime: the quotient sum / resolvedReports, kept as
\* the pair of its numerator and denominator; 0 is 0 / 1.
avgResolutionTime(rs) ==
    IF resolvedReports(rs) > 0
    THEN [ num |-> reduceDays(SelectSeq(rs, LAMBDA r :
                                  r.status = "resolved" /\ "resolvedAt" \in DOMAIN r), 0),
           den |-> resolvedReports(rs) ]
    ELSE [num |-> 0, den |-> 1]

\* The reports a view may be given: any list of up to MaxReports reports.
SampleTimes == {DateOf(12, 9, 15), DateOf(15, 10, 30)}

SampleReport(priority, reportedAt, status) ==
    LET base == [mockReports[1] EXCEPT !.priority = priority,
                                       !.reportedAt = reportedAt,
                                       !.status = status]
    IN  IF status = "resolved"
        THEN Spread(base, [resolvedAt |-> reportedAt + MsPerDay + 12 * MsPerHour])
        ELSE base

SampleReports ==
    {SampleReport(severityPriority(s), t, "pending") :
        s \in {"low", "medium", "high"}, t \in SampleTimes}
    \cup {SampleReport(severityPriority("medium"), t, "resolved") : t \in SampleTimes}

\* The ids of a list are made distinct: the position, as a numeral.
SampleStores ==
    { [i \in 1..Len(rs) |-> Spread(rs[i], [id |-> ToString(i)])] :
        rs \in UNION {[1..n -> SampleReports] : n \in 0..MaxReports} }

InitViews ==
    /\ reports \in SampleStores
    /\ now = Now0
    /\ created = 0
    /\ ops = 0
    /\ lastOp = [op |-> "none"]
    /\ activeTab = "dashboard"
    /\ FormUnmounted
    /\ uploads = 0
    /\ navigatorGeolocation = TRUE
    /\ orphans = {}
    /\ view = NothingRendered
    /\ svc = ServiceIdle
    /\ servlet = NoRequests

\* App shows the dashboard: Dashboard renders from the reports of the store.
RenderDashboard ==
    /\ activeTab' = "dashboard"
    /\ LET after == DashboardRender(reports)
       IN  /\ reports' = after.reports
           /\ view' = [ component |-> "Dashboard", props |-> reports,
                        sortedReports |-> after.sortedReports ]
    /\ UNCHANGED <<created, ops, lastOp, clockVars, formVars, envVars,
                   orphans, serviceVars, servletVars>>

\* App shows the analytics tab: Analytics renders from the reports of the store.
RenderAnalytics ==
    /\ activeTab' = "analytics"
    /\ view' = [ component |-> "Analytics", props |-> reports,
                 totalReports |-> totalReports(reports),
                 resolvedReports |-> resolvedReports(reports),
                 resolutionRate |-> resolutionRate(reports),
                 avgResolutionTime |-> avgResolutionTime(reports) ]
    /\ UNCHANGED <<storeVars, clockVars, formVars, envVars, orphans, serviceVars, servletVars>>

NextViews == RenderDashboard \/ RenderAnalytics

SpecViews == InitViews /\ [][NextViews]_vars

-----------------------------------------------------------------------------
\* Claims about the derived views.

C11_Count(x, s) == Cardinality({i \in 1..Len(s) : s[i] = x})

\* C11: the list the dashboard shows is a permutation of the reports of the
\* store, in order of priority descending and, among reports of one priority,
\* of creation time descending; the store's list is as it was.
C11_DashboardSort ==
    view.component = "Dashboard" =>
        LET s == view.sortedReports
            before == view.props
        IN  /\ reports = before
            /\ Len(s) = Len(before)
            /\ \A i \in 1..Len(s) : C11_Count(s[i], s) = C11_Count(s[i], before)
            /\ \A i, j \in 1..Len(s) :
                  i < j =>
                     \/ s[i].priority > s[j].priority
                     \/ /\ s[i].priority = s[j].priority
                        /\ s[i].reportedAt >= s[j].reportedAt

\* The dashboard has rendered a store with priorities 3, 8, 8, 5, the older
\* report of priority 8 ahead of the newer one in the store.
C11_Witness ==
    /\ view.component = "Dashboard"
    /\ Len(reports) = 4
    /\ [i \in 1..4 |-> reports[i].priority] = <<3, 8, 8, 5>>
    /\ reports[2].reportedAt < reports[3].reportedAt
    /\ [i \in 1..4 |-> view.sortedReports[i].id] = <<"3", "2", "4", "1">>

\* C12: the resolution rate shown is 0 for an empty store and otherwise the
\* percentage resolved / total rounded to the nearest integer, a half going
\* up: 0 of 0 gives 0 and 2 of 4 gives 50.
C12_ResolutionRate ==
    view.component = "Analytics" =>
        LET total == Len(view.props)
            resolved == Cardinality({i \in 1..total : IsResolved(view.props[i])})
            rate == view.resolutionRate
        IN  /\ total = 0 => rate = 0
            /\ total > 0 =>
                  /\ rate \in 0..100
                  /\ 2 * total * rate - total <= 200 * resolved
                  /\ 200 * resolved < 2 * total * rate + total
            /\ (total = 4 /\ resolved = 2) => rate = 50

\* Analytics has rendered a store of three reports, two of them resolved: the
\* rate shown is 67.
C12_Witness ==
    /\ view.component = "Analytics"
    /\ view.totalReports = 3
    /\ view.resolvedReports = 2
    /\ view.resolutionRate = 67

\* The whole days from creation to resolution: the d with
\* d days <= resolvedAt - reportedAt < d + 1 days.
C13_Days(r) ==
    CHOOSE d \in 0..31 :
        /\ d * MsPerDay <= r.resolvedAt - r.reportedAt
        /\ r.resolvedAt - r.reportedAt < (d + 1) * MsPerDay

RECURSIVE C13_SumDays(_)
C13_SumDays(S) ==
    IF S = {} THEN 0
    ELSE LET i == CHOOSE k \in S : TRUE
         IN  C13_Days(reports[i]) + C13_SumDays(S \ {i})

\* C13: in every state reachable through the views the average resolution
\* time is 0 when no report is resolved, and otherwise the sum, over exactly
\* the resolved reports, of the whole days from creation to resolution,
\* divided by the number of resolved reports.
C13_AvgResolutionTime ==
    LET R == {i \in 1..Len(reports) : IsResolved(reports[i])}
        avg == avgResolutionTime(reports)
    IN  /\ R = {} => (avg.num = 0 /\ avg.den = 1)
        /\ R # {} =>
              /\ \A i \in R : HasResolvedAt(reports[i])
              /\ avg.den = Cardinality(R)
              /\ avg.num = C13_SumDays(R)

\* The analytics tab is shown after a report created less than a day before
\* was resolved through the dashboard: two resolved reports, one whole day
\* between them.
C13_Witness ==
    /\ activeTab = "analytics"
    /\ lastOp.op = "update"
    /\ lastOp.via = "handleStatusChange"
    /\ lastOp.arg = "resolved"
    /\ avgResolutionTime(reports) = [num |-> 1, den |-> 2]

-----------------------------------------------------------------------------
\* AIService: the client of the analysis service.  A call sends one request
\* through axios and ends when the request settles.

\* JavaScript values as the client meets them in a response body.  A
\* property that is missing reads as undefined.
Undefined == [t |-> "undefined"]
Bool(b) == [t |-> "boolean", v |-> b]
Str(str) == [t |-> "string", v |-> str]
Obj(o) == [t |-> "object", v |-> o]

\* ToBoolean(x), as !x, && and || apply it.
truthy(x) ==
    CASE x.t = "undefined" -> FALSE
      [] x.t = "boolean" -> x.v
      [] x.t = "string" -> x.v # ""
      [] OTHER -> TRUE

\* How a call ends.
Returned(value) == [kind |-> "return", value |-> value, mock |-> FALSE]
Thrown(message) == [kind |-> "throw", message |-> message, mock |-> FALSE]

\* Math.random() is drawn / RandomScale, 0 <= drawn < RandomScale.
RandomScale == 1000
RandomDraws == {0, RandomScale \div 2, RandomScale - 1}
RandomEnds == {0, RandomScale - 1}

\* The nine draws of one getMockAnalysis call, in the order of the calls.
RandomSamples ==
    [ severity : RandomEnds, riskLevel : RandomEnds,
      width : RandomDraws, length : RandomDraws, depth : RandomDraws,
      confidence : RandomEnds, severity_confidence : RandomEnds,
      risk_score : RandomEnds, priority : RandomDraws ]

severities == <<"low", "medium", "high", "critical">>
riskLevels == <<"Low Risk", "Medium Risk", "High Risk", "Critical Risk">>

\* array[Math.floor(Math.random() * array.length)], the array counted from 1.
randomElement(array, drawn) == array[MathFloor(drawn * Len(array), RandomScale) + 1]

\* A faulty variant: the priority is rounded, Math.round(1 + Math.random() * 10).
mockPriority_rounded(drawn) == MathRound(1 * RandomScale + drawn * 10, RandomScale)

\* Math.floor(1 + Math.random() * 10)
mockPriority(drawn) == MathFloor(1 * RandomScale + drawn * 10, RandomScale)

\* Math.round(base + Math.random() * span)
mockDimension(base, span, drawn) ==
    MathRound(base * RandomScale + drawn * span, RandomScale)

\* getMockAnalysis.  confidence and severity_confidence are in units of
\* 1 / (100 * RandomScale) and risk_score in units of 1 / RandomScale.
getMockAnalysis(rnd) ==
    LET severity == randomElement(severities, rnd.severity)
        riskLevel == randomElement(riskLevels, rnd.riskLevel)
        width == mockDimension(20, 50, rnd.width)
        length == mockDimension(25, 60, rnd.length)
        depth == mockDimension(3, 15, rnd.depth)
    IN  [ confidence |-> 75 * RandomScale + 20 * rnd.confidence,
          severity |-> severity,
          severity_confidence |-> 80 * RandomScale + 15 * rnd.severity_confidence,
          dimensions |-> [width |-> width, length |-> length, depth |-> depth],
          riskLevel |-> riskLevel,
          risk_score |-> rnd.risk_score,
          priority |-> mockPriority(rnd.priority),
          area |-> width * length,
          volume |-> width * length * depth,
          filename |-> "mock_analysis.jpg",
          file_size |-> 245760,
          image_dimensions |-> [width |-> 800, height |-> 600] ]

Mocked(rnd) == [kind |-> "return", value |-> Obj(getMockAnalysis(rnd)), mock |-> TRUE]

\* How a request may settle.  axios rejects with an AxiosError: the
\* connection was refused, the timeout of 30 seconds ran out, the network
\* failed, or the status was not 2xx.  Otherwise it resolves with a response
\* whose data is the body: an object, null, or text that is not JSON.
AxiosErrorCodes ==
    {"ECONNREFUSED", "ECONNABORTED", "ERR_NETWORK", "ERR_BAD_RESPONSE", "ERR_BAD_REQUEST"}

AxiosError(code) ==
    [ isAxiosError |-> TRUE, code |-> Str(code),
      status |-> IF code = "ERR_BAD_RESPONSE" THEN 500
                 ELSE IF code = "ERR_BAD_REQUEST" THEN 404 ELSE 0 ]

\* new Error(message): not an AxiosError, and without a code.
Error(message) == [isAxiosError |-> FALSE, code |-> Undefined, message |-> message]

\* The TypeError of reading a property of null.
TypeError == [isAxiosError |-> FALSE, code |-> Undefined, message |-> "TypeError"]

Rejected(error) == [settled |-> "rejected", error |-> error]
Resolved(data) == [settled |-> "resolved", data |-> data]

Rejections == {Rejected(AxiosError(code)) : code \in AxiosErrorCodes}

NullBody == [type |-> "null"]
TextBody == [type |-> "string"]

\* An analysis as the service sends it.
ServiceAnalysis ==
    [ confidence |-> 91000, severity |-> "high", severity_confidence |-> 87000,
      dimensions |-> [width |-> 45, length |-> 60, depth |-> 8],
      riskLevel |-> "High Risk", risk_score |-> 700, priority |-> 8,
      area |-> 2700, volume |-> 21600 ]

Flags == {Undefined, Bool(TRUE), Bool(FALSE)}

\* GET /health
HealthBodies ==
    {[type |-> "object", status |-> st, model_available |-> m] :
        st \in {Undefined, Str("healthy"), Str("unhealthy")}, m \in Flags}
    \cup {NullBody, TextBody}

\* GET /model-info
ModelInfoBodies ==
    {[type |-> "object", model_available |-> m] : m \in Flags} \cup {NullBody, TextBody}

\* POST /analyze-pothole and GET /sample-analysis
AnalysisBodies ==
    {[type |-> "object", success |-> ok, analysis |-> a, message |-> msg] :
        ok \in Flags, a \in {Undefined, Obj(ServiceAnalysis)},
        msg \in {Undefined, Str("No pothole detected")}}
    \cup {NullBody, TextBody}

\* POST /analyze-pothole-batch
BatchBodies ==
    {[type |-> "object", success |-> ok, results |-> rs] :
        ok \in Flags, rs \in {Undefined, Obj(<<ServiceAnalysis, ServiceAnalysis>>)}}
    \cup {NullBody, TextBody}

\* POST /train-model
TrainBodies ==
    {[type |-> "object", success |-> ok] : ok \in Flags} \cup {NullBody, TextBody}

Outcomes(bodies) == Rejections \cup {Resolved(data) : data \in bodies}

\* response.data.key where data is not null: undefined for text.
prop(data, key) == IF data.type = "object" THEN data[key] ELSE Undefined

\* What the try block of a method comes to, up to the first read of a
\* property of response.data: the rejection of the request, or the TypeError
\* for a null body, or nothing yet.
caught(outcome) ==
    IF outcome.settled = "rejected" THEN [thrown |-> TRUE, error |-> outcome.error]
    ELSE IF outcome.data.type = "null" THEN [thrown |-> TRUE, error |-> TypeError]
    ELSE [thrown |-> FALSE]

\* A faulty variant: the health is the status alone.
checkHealth_statusOnly(outcome) ==
    IF caught(outcome).thrown THEN Returned(Bool(FALSE))
    ELSE Returned(Bool(prop(outcome.data, "status") = Str("healthy")))

\* checkHealth: response.data.status === 'healthy' && response.data.model_available,
\* false in the catch.
checkHealth(outcome) ==
    IF caught(outcome).thrown THEN Returned(Bool(FALSE))
    ELSE IF prop(outcome.data, "status") = Str("healthy")
         THEN Returned(prop(outcome.data, "model_available"))
         ELSE Returned(Bool(FALSE))

\* getModelInfo: response.data; the catch throws.
getModelInfo(outcome) ==
    IF outcome.settled = "rejected"
    THEN Thrown("Failed to get AI model information")
    ELSE Returned(Obj(outcome.data))

\* A faulty variant: every AxiosError gives the mock analysis.
analyzePothole_anyAxiosError(outcome, rnd) ==
    LET tried ==
           IF caught(outcome).thrown THEN caught(outcome)
           ELSE IF ~truthy(prop(outcome.data, "success"))
                THEN [thrown |-> TRUE, error |-> Error("Analysis failed")]
                ELSE [thrown |-> FALSE, value |-> prop(outcome.data, "analysis")]
    IN  IF ~tried.thrown THEN Returned(tried.value)
        ELSE IF tried.error.isAxiosError THEN Mocked(rnd)
        ELSE Thrown("Failed to analyze pothole image")

\* analyzePothole: throws inside the try when !response.data.success; the
\* catch returns the mock analysis for an AxiosError with code ECONNREFUSED
\* and throws otherwise.
analyzePothole(outcome, rnd) ==
    LET tried ==
           IF caught(outcome).thrown THEN caught(outcome)
           ELSE IF ~truthy(prop(outcome.data, "success"))
                THEN [ thrown |-> TRUE,
                       error |-> Error(IF truthy(prop(outcome.data, "message"))
                                       THEN prop(outcome.data, "message").v
                                       ELSE "Analysis failed") ]
                ELSE [thrown |-> FALSE, value |-> prop(outcome.data, "analysis")]
    IN  IF ~tried.thrown THEN Returned(tried.value)
        ELSE IF tried.error.isAxiosError /\ tried.error.code = Str("ECONNREFUSED")
             THEN Mocked(rnd)
             ELSE Thrown("Failed to analyze pothole image")

\* A faulty variant: the results are returned without looking at success.
analyzePotholeBatch_unchecked(outcome) ==
    IF caught(outcome).thrown
    THEN Thrown("Failed to analyze pothole images in batch")
    ELSE IF truthy(prop(outcome.data, "results"))
         THEN Returned(prop(outcome.data, "results"))
         ELSE Returned(Obj(<<>>))

\* analyzePotholeBatch: response.data.results || [], after the check of
\* success; the catch throws.
analyzePotholeBatch(outcome) ==
    IF caught(outcome).thrown \/ ~truthy(prop(outcome.data, "success"))
    THEN Thrown("Failed to analyze pothole images in batch")
    ELSE IF truthy(prop(outcome.data, "results"))
         THEN Returned(prop(outcome.data, "results"))
         ELSE Returned(Obj(<<>>))

\* getSampleAnalysis: response.data.analysis; the mock analysis in the catch.
getSampleAnalysis(outcome, rnd) ==
    IF caught(outcome).thrown THEN Mocked(rnd)
    ELSE Returned(prop(outcome.data, "analysis"))

\* trainModel: response.data.success; false in the catch.
trainModel(outcome) ==
    IF caught(outcome).thrown THEN Returned(Bool(FALSE))
    ELSE Returned(prop(outcome.data, "success"))

Methods ==
    { "checkHealth", "getModelInfo", "analyzePothole", "analyzePotholeBatch",
      "getSampleAnalysis", "trainModel" }

\* A method of aiService is called and its request is sent.
ServiceCall ==
    /\ svc.pc \in {"idle", "done"}
    /\ \E method \in Methods : svc' = [pc |-> "awaiting", method |-> method]
    /\ UNCHANGED <<storeVars, clockVars, activeTab, formVars, envVars, orphans, viewVars, servletVars>>

Awaiting(method) == svc.pc = "awaiting" /\ svc.method = method

Done(method, outcome, result) ==
    [pc |-> "done", method |-> method, outcome |-> outcome, result |-> result]

\* The request of the call settles and the method ends.
checkHealthSettled ==
    /\ Awaiting("checkHealth")
    /\ \E outcome \in Outcomes(HealthBodies) :
          svc' = Done("checkHealth", outcome, checkHealth(outcome))
    /\ UNCHANGED <<storeVars, clockVars, activeTab, formVars, envVars, orphans, viewVars, servletVars>>

getModelInfoSettled ==
    /\ Awaiting("getModelInfo")
    /\ \E outcome \in Outcomes(ModelInfoBodies) :
          svc' = Done("getModelInfo", outcome, getModelInfo(outcome))
    /\ UNCHANGED <<storeVars, clockVars, activeTab, formVars, envVars, orphans, viewVars, servletVars>>

analyzePotholeSettled ==
    /\ Awaiting("analyzePothole")
    /\ \E outcome \in Outcomes(AnalysisBodies), rnd \in RandomSamples :
          svc' = Done("analyzePothole", outcome, analyzePothole(outcome, rnd))
    /\ UNCHANGED <<storeVars, clockVars, activeTab, formVars, envVars, orphans, viewVars, servletVars>>

analyzePotholeBatchSettled ==
    /\ Awaiting("analyzePotholeBatch")
    /\ \E outcome \in Outcomes(BatchBodies) :
          svc' = Done("analyzePotholeBatch", outcome, analyzePotholeBatch(outcome))
    /\ UNCHANGED <<storeVars, clockVars, activeTab, formVars, envVars, orphans, viewVars, servletVars>>

getSampleAnalysisSettled ==
    /\ Awaiting("getSampleAnalysis")
    /\ \E outcome \in Outcomes(AnalysisBodies), rnd \in RandomSamples :
          svc' = Done("getSampleAnalysis", outcome, getSampleAnalysis(outcome, rnd))
    /\ UNCHANGED <<storeVars, clockVars, activeTab, formVars, envVars, orphans, viewVars, servletVars>>

trainModelSettled ==
    /\ Awaiting("trainModel")
    /\ \E outcome \in Outcomes(TrainBodies) :
          svc' = Done("trainModel", outcome, trainModel(outcome))
    /\ UNCHANGED <<storeVars, clockVars, activeTab, formVars, envVars, orphans, viewVars, servletVars>>

NextService ==
    \/ ServiceCall
    \/ checkHealthSettled
    \/ getModelInfoSettled
    \/ analyzePotholeSettled
    \/ analyzePotholeBatchSettled
    \/ getSampleAnalysisSettled
    \/ trainModelSettled

\* The client is exercised on its own.
InitService == Init /\ navigatorGeolocation

SpecService == InitService /\ [][NextService]_vars

-----------------------------------------------------------------------------
\* Claims about the client of the analysis service (checked under SpecService).

C14_Refused(outcome) ==
    /\ outcome.settled = "rejected"
    /\ outcome.error.code = Str("ECONNREFUSED")

\* The response says success: it is an object whose success is true.
C14_Success(outcome) ==
    /\ outcome.settled = "resolved"
    /\ outcome.data.type = "object"
    /\ outcome.data.success = Bool(TRUE)

\* C14: analyzePothole returns a mock analysis exactly when the request was
\* refused (ECONNREFUSED).  For every other failure, a status that is not 2xx,
\* a timeout, a network error, a body that is null or text, a body whose
\* success is false or missing, it throws the generic error and returns no
\* mock.  For a response that says success it returns the analysis of the
\* response as it is.
C14_AnalyzePothole ==
    (svc.pc = "done" /\ svc.method = "analyzePothole") =>
        LET outcome == svc.outcome
            result == svc.result
        IN  /\ result.mock <=> C14_Refused(outcome)
            /\ result.mock => result.kind = "return"
            /\ (~C14_Refused(outcome) /\ ~C14_Success(outcome)) =>
                  /\ result.kind = "throw"
                  /\ result.message = "Failed to analyze pothole image"
            /\ C14_Success(outcome) =>
                  /\ result.kind = "return"
                  /\ result.value = outcome.data.analysis

\* A request answered with status 500 has made analyzePothole throw.
C14_Witness ==
    /\ svc.pc = "done"
    /\ svc.method = "analyzePothole"
    /\ svc.outcome.settled = "rejected"
    /\ svc.outcome.error.status = 500
    /\ svc.result.kind = "throw"

\* C15: every mock analysis has a priority from 1 to 10, a width from 20 to
\* 70, a length from 25 to 85, a depth from 3 to 18, area = width * length and
\* volume = width * length * depth, both above 0.
C15_MockAnalysis ==
    (svc.pc = "done" /\ svc.result.mock) =>
        LET a == svc.result.value.v
        IN  /\ a.priority \in 1..10
            /\ a.dimensions.width \in 20..70
            /\ a.dimensions.length \in 25..85
            /\ a.dimensions.depth \in 3..18
            /\ a.area = a.dimensions.width * a.dimensions.length
            /\ a.volume = a.dimensions.width * a.dimensions.length * a.dimensions.depth
            /\ a.area > 0
            /\ a.volume > 0

\* A mock analysis was made from the highest draws: priority 10, 70 by 85 by 18.
C15_Witness ==
    /\ svc.pc = "done"
    /\ svc.result.mock
    /\ svc.result.value.v.priority = 10
    /\ svc.result.value.v.dimensions = [width |-> 70, length |-> 85, depth |-> 18]
    /\ svc.result.value.v.volume = 70 * 85 * 18

\* C16: checkHealth never throws; it returns true only for a response whose
\* status is healthy and whose model_available is true, and false whenever the
\* request fails.
C16_CheckHealth ==
    (svc.pc = "done" /\ svc.method = "checkHealth") =>
        /\ svc.result.kind = "return"
        /\ svc.result.value = Bool(TRUE) =>
              /\ svc.outcome.settled = "resolved"
              /\ svc.outcome.data.type = "object"
              /\ svc.outcome.data.status = Str("healthy")
              /\ svc.outcome.data.model_available = Bool(TRUE)
        /\ svc.outcome.settled = "rejected" => svc.result.value = Bool(FALSE)

\* The service answered healthy without a model and checkHealth returned false.
C16_Witness ==
    /\ svc.pc = "done"
    /\ svc.method = "checkHealth"
    /\ svc.outcome.settled = "resolved"
    /\ svc.outcome.data.type = "object"
    /\ svc.outcome.data.status = Str("healthy")
    /\ svc.outcome.data.model_available = Bool(FALSE)
    /\ svc.result.value = Bool(FALSE)

\* C17: when the request fails getSampleAnalysis returns a mock analysis and
\* trainModel returns false, and neither ever throws; getModelInfo throws; and
\* analyzePotholeBatch throws whenever the request fails or the response does
\* not say success.
C17_AuxiliaryCalls ==
    svc.pc = "done" =>
        LET failed == svc.outcome.settled = "rejected"
            saysSuccess == /\ svc.outcome.settled = "resolved"
                           /\ svc.outcome.data.type = "object"
                           /\ svc.outcome.data.success = Bool(TRUE)
        IN  /\ svc.method = "getSampleAnalysis" =>
                  /\ svc.result.kind = "return"
                  /\ failed => svc.result.mock
            /\ svc.method = "trainModel" =>
                  /\ svc.result.kind = "return"
                  /\ failed => svc.result.value = Bool(FALSE)
            /\ (svc.method = "getModelInfo" /\ failed) =>
                  /\ svc.result.kind = "throw"
                  /\ svc.result.message = "Failed to get AI model information"
            /\ (svc.method = "analyzePotholeBatch" /\ ~saysSuccess) =>
                  /\ svc.result.kind = "throw"
                  /\ svc.result.message = "Failed to analyze pothole images in batch"

\* The batch response carried results with success false, and the call threw.
C17_Witness ==
    /\ svc.pc = "done"
    /\ svc.method = "analyzePotholeBatch"
    /\ svc.outcome.settled = "resolved"
    /\ svc.outcome.data.type = "object"
    /\ svc.outcome.data.success = Bool(FALSE)
    /\ svc.outcome.data.results # Undefined
    /\ svc.result.kind = "throw"

-----------------------------------------------------------------------------
\* Claims about the analysis of the submission form (checked under SpecForm).

\* C18: the analysis of the form goes idle, image selected, analyzing, then
\* complete or failed.  A file is read only once it is the selected image; a
\* request starts only when a selected image has been read, and the form is
\* then analyzing; and when a request of the mounted form ends the form is no
\* longer analyzing and is in exactly one of two states: complete, with the
\* result of the request stored and the complete flag true, or failed, with
\* the error message set and the complete flag false.
C18_AnalysisStateMachine ==
    /\ [](inflight # {} => (image # NoFile /\ imagePreview # ""))
    /\ [](analyzing => imagePreview # "")
    /\ [][ /\ (reading' \ reading # {}) =>
                 \A r \in reading' \ reading : image' = r.file
           /\ (inflight' \ inflight # {}) =>
                 /\ inflight' \ inflight = reading \ reading'
                 /\ image # NoFile
                 /\ analyzing'
                 /\ ~analysisComplete'
                 /\ analysisError' = ""
           /\ (inflight' # inflight /\ inflight' \subseteq inflight
                 /\ activeTab' = "report") =>
                 /\ ~analyzing'
                 /\ LET complete == /\ analysisComplete'
                                    /\ aiAnalysis'.present
                                    /\ \E r \in inflight \ inflight' :
                                          aiAnalysis' = analysisOf(r.file)
                        failed == /\ ~analysisComplete'
                                  /\ analysisError' = AnalysisFailedMessage
                    IN  complete # failed ]_vars

\* The analysis of a second image has failed after the analysis of the first
\* was complete: the form shows the failure and no request is outstanding.
C18_Witness ==
    /\ activeTab = "report"
    /\ uploads = 2
    /\ reading = {}
    /\ inflight = {}
    /\ ~analyzing
    /\ ~analysisComplete
    /\ analysisError = AnalysisFailedMessage
    /\ aiAnalysis.present

\* C19: in every state of the form in which an analysis request has been
\* started and has neither completed nor failed, the analyzing flag is true.
C19_PendingIndicator ==
    (activeTab = "report" /\ inflight # {}) => analyzing

\* Two requests of the form are outstanding at once.
C19_Overlap ==
    /\ activeTab = "report"
    /\ Cardinality(inflight) = 2

\* C20: an outstanding analysis never blocks the submit.  Whatever the state
\* of the analysis, a form whose required inputs are filled can be submitted;
\* the created report carries the confidence, dimensions and risk level of
\* the analysis the form held when it was submitted, or no analysis if it
\* held none; and what is left of the form's reads and requests changes
\* neither this report nor the others when it ends later.
C20_SubmitNotBlocked ==
    /\ ( /\ activeTab = "report"
         /\ formData.location # ""
         /\ formData.description # ""
         /\ formData.reportedBy # ""
         /\ created < MaxSubmits
         /\ created + ops < MaxCalls ) => ENABLED handleSubmit
    /\ (lastOp.op = "add" /\ lastOp.via = "handleSubmit") =>
          LET r == Head(reports)
              held == lastOp.form.aiAnalysis
          IN  /\ r.id = lastOp.id
              /\ Tail(reports) = lastOp.before
              /\ IF held.present
                 THEN /\ "aiAnalysis" \in DOMAIN r
                      /\ r.aiAnalysis = [ confidence |-> held.confidence,
                                          dimensions |-> held.dimensions,
                                          riskLevel |-> held.riskLevel ]
                 ELSE "aiAnalysis" \notin DOMAIN r

\* The form was submitted while the analysis of a second image was
\* outstanding, holding the result of the first; that request has ended since
\* and the report still carries the first result.
C20_Witness ==
    /\ lastOp.op = "add"
    /\ lastOp.via = "handleSubmit"
    /\ lastOp.form.analyzing
    /\ lastOp.form.aiAnalysis.present
    /\ lastOp.form.imagePreview # dataUrl(lastOp.form.aiAnalysis.file)
    /\ orphans = {}
    /\ Head(reports).aiAnalysis.confidence = lastOp.form.aiAnalysis.confidence

-----------------------------------------------------------------------------
\* Claims about submission, geolocation and overlapping analyses.

\* C21: after a submission exactly one draft has been forwarded to the store
\* (the list is the former list with the one created report ahead of it), the
\* setters of handleSubmit have put every form field back to its initial
\* value (empty location, description and reporter, severity medium, no
\* image, no preview, no analysis result, completion flag off), nothing is
\* rendered as pending, complete or failed, and the form, unmounted by the
\* tab change, holds its initial state.
C21_SubmitResets ==
    (lastOp.op = "add" /\ lastOp.via = "handleSubmit") =>
        /\ lastOp.draft = submitDraft(lastOp.form.formData, lastOp.form.imagePreview,
                                      lastOp.form.aiAnalysis)
        /\ reports = <<newReport(lastOp.draft, lastOp.time)>> \o lastOp.before
        /\ created = 1
        /\ lastOp.reset.formData = initialFormData
        /\ lastOp.reset.formData.location = ""
        /\ lastOp.reset.formData.description = ""
        /\ lastOp.reset.formData.reportedBy = ""
        /\ lastOp.reset.formData.severity = "medium"
        /\ lastOp.reset.image = NoFile
        /\ lastOp.reset.imagePreview = ""
        /\ lastOp.reset.aiAnalysis = NoAnalysis
        /\ ~lastOp.reset.analysisComplete
        /\ statusIndicators(lastOp.reset) = NoIndicator
        /\ FormUnmounted

\* A form that showed a preview and a failed analysis has been submitted with
\* a severity other than the initial one.
C21_Witness ==
    /\ lastOp.op = "add"
    /\ lastOp.via = "handleSubmit"
    /\ lastOp.form.image # NoFile
    /\ lastOp.form.imagePreview # ""
    /\ lastOp.form.analysisError # ""
    /\ statusIndicators(lastOp.form).error
    /\ lastOp.form.formData.severity = "high"
    /\ Len(reports) = Len(mockReports) + 1

\* C22: the position is requested exactly once, when the form mounts: a
\* request becomes pending only in the step that mounts the form, and once it
\* has been answered, no further one is made while the form stays mounted.
\* Without navigator.geolocation the fallback (40.7128, -74.0060) is in the
\* form from the mount on; a pending request is answered either with the
\* reported position (success) or with the fallback (failure, timeout); no
\* answer touches the error message or any other field of the form.
C22_GeolocationOnce ==
    /\ [](activeTab # "report" => geo = "none")
    /\ []((activeTab = "report" /\ ~navigatorGeolocation) =>
              (geo = "none" /\ formData.coordinates = FallbackCoordinates))
    /\ []((activeTab = "report" /\ navigatorGeolocation) => geo \in {"pending", "done"})
    /\ []((activeTab = "report" /\ geo = "pending") =>
              formData.coordinates = initialFormData.coordinates)
    /\ []((activeTab = "report" /\ geo = "done") =>
              formData.coordinates \in Positions \cup {FallbackCoordinates})
    /\ [][ /\ (geo' = "pending" /\ geo # "pending") =>
                  (activeTab # "report" /\ activeTab' = "report")
           /\ (activeTab = "report" /\ activeTab' = "report" /\ geo = "done") =>
                  (geo' = "done" /\ formData'.coordinates = formData.coordinates)
           /\ (geo = "pending" /\ geo' = "done") =>
                  /\ formData' = [formData EXCEPT !.coordinates = formData'.coordinates]
                  /\ analysisError' = analysisError
                  /\ statusIndicators(formState)' = statusIndicators(formState)
                  /\ reports' = reports ]_vars

\* The platform has navigator.geolocation, the request made at the mount has
\* failed, and the form holds the fallback.
C22_Witness ==
    /\ activeTab = "report"
    /\ navigatorGeolocation
    /\ geo = "done"
    /\ formData.coordinates = FallbackCoordinates
    /\ formData.location # ""

\* C23: selecting a second image while the first analysis is outstanding
\* cancels nothing: a step that starts a file read or a request leaves every
\* outstanding one in place.  Each call that resolves puts its own analysis
\* in the form, whichever image was selected or previewed last, so that the
\* analysis shown is that of the call that resolved last; apart from that
\* only the unmounting of the form changes the analysis held.
C23_LastResolvedWins ==
    [][ /\ (Cardinality(reading') > Cardinality(reading)
              \/ Cardinality(inflight') > Cardinality(inflight)) =>
                  /\ inflight \subseteq inflight'
                  /\ reading \cup inflight \subseteq reading' \cup inflight'
        /\ \A r \in inflight :
              (activeTab' = "report" /\ inflight' = inflight \ {r} /\ analysisComplete') =>
                  /\ aiAnalysis' = analysisOf(r.file)
                  /\ imagePreview' = imagePreview
                  /\ image' = image
        /\ aiAnalysis' # aiAnalysis =>
              \/ activeTab' # "report" /\ aiAnalysis' = NoAnalysis
              \/ \E r \in inflight :
                    /\ inflight' = inflight \ {r}
                    /\ aiAnalysis' = analysisOf(r.file) ]_vars

\* Two images were selected, the first one's call resolved last: the form
\* shows the analysis of the first image under the preview of the second.
C23_Witness ==
    /\ activeTab = "report"
    /\ uploads = 2
    /\ image = "f2"
    /\ imagePreview = dataUrl("f2")
    /\ analysisComplete
    /\ aiAnalysis = analysisOf("f1")
    /\ statusIndicators(formState).complete
    /\ reading = {}
    /\ inflight = {}

\* C24: no step of the views clears or removes a resolution timestamp: a
\* report that has a resolvedAt has one after every step, and it is the value
\* it had unless the step moves the report, not resolved before it, to
\* resolved and stamps it with the current time.  In particular a resolved
\* report moved to another status, by the status select or by an assignment,
\* keeps its resolvedAt.
C24_ResolvedAtKept ==
    [][ /\ Len(reports') >= Len(reports)
        /\ \A i \in 1..Len(reports) :
              LET j == i + (Len(reports') - Len(reports))
              IN  HasResolvedAt(reports[i]) =>
                      /\ HasResolvedAt(reports'[j])
                      /\ \/ reports'[j].resolvedAt = reports[i].resolvedAt
                         \/ /\ ~IsResolved(reports[i])
                            /\ IsResolved(reports'[j])
                            /\ reports'[j].resolvedAt = now ]_vars

\* A resolved report has been assigned: it is in progress and carries the
\* resolution timestamp it had.
C24_Witness ==
    /\ lastOp.op = "update"
    /\ lastOp.via = "handleAssign"
    /\ \E i \in 1..Len(reports) :
          /\ lastOp.before[i].id = lastOp.id
          /\ IsResolved(lastOp.before[i])
          /\ reports[i].status = "in-progress"
          /\ HasResolvedAt(reports[i])
          /\ reports[i].resolvedAt = lastOp.before[i].resolvedAt

\* The list without the reports of the given id, taken one report at a time.
RECURSIVE C25_Without(_, _)
C25_Without(rs, id) ==
    IF rs = <<>> THEN <<>>
    ELSE IF Head(rs).id = id THEN C25_Without(Tail(rs), id)
    ELSE <<Head(rs)>> \o C25_Without(Tail(rs), id)

\* C25: the views never delete a report: after every sequence of submissions,
\* status changes, assignments and priority changes the three seed reports are
\* in the store, the store holds one report per seed and per submission, the
\* last store call is never a delete, and no step takes an id out of the
\* store.  The delete operation itself, applied to the store with any id,
\* gives the list without the reports of that id, the others as they were and
\* in their order.
C25_NeverDeleted ==
    /\ [](SeedIds \subseteq Ids(reports))
    /\ [](Len(reports) = Len(mockReports) + created)
    /\ [](lastOp.op \in {"none", "add", "update"})
    /\ [](\A id \in Ids(reports) \cup {UnknownId} :
              LET d == deleteReport(reports, id)
              IN  /\ d = C25_Without(reports, id)
                  /\ Ids(d) = Ids(reports) \ {id}
                  /\ (id = UnknownId => d = reports))
    /\ [][ /\ Ids(reports) \subseteq Ids(reports')
           /\ Len(reports') >= Len(reports) ]_vars

\* A report has been submitted and a view has changed a report since: the
\* store holds four ids, and deleting the changed report would leave three.
C25_Witness ==
    /\ created = 1
    /\ lastOp.op = "update"
    /\ Cardinality(Ids(reports)) = Len(mockReports) + 1
    /\ Len(deleteReport(reports, lastOp.id)) = Len(mockReports)
    /\ lastOp.id \notin Ids(deleteReport(reports, lastOp.id))

\* C26: an assignee change sends the assignee and status in-progress in one
\* update, whatever the report's status was and whatever is selected:
\* 'Unassigned' gives the empty assignee and in-progress too, and so does
\* re-assigning a resolved or rejected report; nothing else of the report
\* changes and no other report changes.  A priority change changes the
\* priority of the report and nothing else.
C26_AssignSetsInProgress ==
    /\ (lastOp.op = "update" /\ lastOp.via = "handleAssign") =>
          /\ lastOp.arg \in AssignOptions
          /\ lastOp.updates = [assignedTo |-> lastOp.arg, status |-> "in-progress"]
          /\ Len(reports) = Len(lastOp.before)
          /\ \A i \in 1..Len(reports) :
                IF lastOp.before[i].id = lastOp.id
                THEN /\ reports[i].status = "in-progress"
                     /\ DOMAIN reports[i] = DOMAIN lastOp.before[i] \cup {"assignedTo"}
                     /\ reports[i].assignedTo = lastOp.arg
                     /\ \A k \in DOMAIN lastOp.before[i] \ {"assignedTo", "status"} :
                           reports[i][k] = lastOp.before[i][k]
                ELSE reports[i] = lastOp.before[i]
    /\ (lastOp.op = "update" /\ lastOp.via = "handlePriorityChange") =>
          /\ lastOp.updates = [priority |-> lastOp.arg]
          /\ Len(reports) = Len(lastOp.before)
          /\ \A i \in 1..Len(reports) :
                IF lastOp.before[i].id = lastOp.id
                THEN reports[i] = [lastOp.before[i] EXCEPT !.priority = lastOp.arg]
                ELSE reports[i] = lastOp.before[i]

\* 'Unassigned' has been selected for a rejected report that had an assignee:
\* the report is in progress with the empty assignee.
C26_Witness ==
    /\ lastOp.op = "update"
    /\ lastOp.via = "handleAssign"
    /\ lastOp.arg = ""
    /\ \E i \in 1..Len(reports) :
          /\ lastOp.before[i].id = lastOp.id
          /\ lastOp.before[i].status = "rejected"
          /\ assignedToOrEmpty(lastOp.before[i]) # ""
          /\ reports[i].status = "in-progress"
          /\ reports[i].assignedTo = ""

\* C27: the form never shows an analysis as complete and as failed at once:
\* the completion flag is not set with a result present while the error
\* message is non-empty.
C27_NeverCompleteAndFailed ==
    activeTab = "report" =>
        ~(analysisComplete /\ aiAnalysis.present /\ analysisError # "")

\* Of two overlapping calls one has failed and the other has resolved after
\* it: both status lines are rendered under the preview and nothing is
\* outstanding.
C27_BothRendered ==
    /\ activeTab = "report"
    /\ uploads = 2
    /\ reading = {}
    /\ inflight = {}
    /\ statusIndicators(formState).complete
    /\ statusIndicators(formState).error
    /\ ~statusIndicators(formState).analyzing

\* C28: the analysis attached to a report created by submission was produced
\* for the image whose preview is attached to the same report.
C28_AnalysisMatchesImage ==
    (lastOp.op = "add" /\ lastOp.via = "handleSubmit"
        /\ "aiAnalysis" \in DOMAIN Head(reports)) =>
            \E file \in Files :
                /\ Head(reports).imageUrl = dataUrl(file)
                /\ lastOp.form.aiAnalysis = analysisOf(file)
                /\ Head(reports).aiAnalysis.riskLevel = analysisOf(file).riskLevel

\* A report has been created with the picture of the second image and the
\* analysis made for the first one, while the call for the second image was
\* still outstanding.
C28_Mismatch ==
    /\ lastOp.op = "add"
    /\ lastOp.via = "handleSubmit"
    /\ lastOp.form.image = "f2"
    /\ Head(reports).imageUrl = dataUrl("f2")
    /\ lastOp.form.aiAnalysis = analysisOf("f1")
    /\ Head(reports).aiAnalysis.confidence = analysisOf("f1").confidence
    /\ lastOp.form.analyzing
    /\ \E o \in orphans : o.file = "f2" /\ o.stage = "request"

\* C29: a report created by submission carries the position the platform
\* reported or the fallback, never the initial (0, 0).
C29_SubmittedCoordinates ==
    (lastOp.op = "add" /\ lastOp.via = "handleSubmit") =>
        /\ Head(reports).coordinates \in Positions \cup {FallbackCoordinates}
        /\ Head(reports).coordinates # initialFormData.coordinates

\* The form has been submitted while the position request made at its mount
\* was unanswered: the report is at (0, 0).
C29_SubmittedBeforeCallback ==
    /\ lastOp.op = "add"
    /\ lastOp.via = "handleSubmit"
    /\ navigatorGeolocation
    /\ Head(reports).coordinates = [lat |-> 0, lng |-> 0]
    /\ Head(reports).location # ""

-----------------------------------------------------------------------------
\* VoteServlet (the legacy voting servlet): doPost reads votes.xml, looks for
\* the voter, appends the vote and writes the whole document back.  The
\* container runs doPost on one thread per request and the method takes no
\* lock, so the steps of several requests interleave.  The file is read in
\* one step; it is written in two, the opening of the output stream, which
\* truncates it, and the writing of the document.

MaxRequests == 3    \* SpecServlet: requests handled

VoterIds == {"v1", "v2"}
Candidates == {"a", "b"}

\* votes.xml holding a document with these <vote> elements.
votesFile(doc) == [exists |-> TRUE, wellFormed |-> TRUE, votes |-> doc]

\* votes.xml just opened for writing, or holding the beginning of one document
\* and the end of another: builder.parse(file) throws.
NotWellFormed == [exists |-> TRUE, wellFormed |-> FALSE]

\* The loop over root.getElementsByTagName("vote").
alreadyVoted(doc, voterId) == \E i \in 1..Len(doc) : doc[i].voterId = voterId

\* Whether the file as it is holds a vote of the voter.
recorded(file, voterId) ==
    file.exists /\ file.wellFormed /\ alreadyVoted(file.votes, voterId)

\* What the file holds once a stream opened earlier has written doc from its
\* start: the document, unless a longer one was written through another
\* stream in between, whose end then follows it.
written(file, doc) ==
    IF file.exists /\ file.wellFormed /\ Len(file.votes) > Len(doc)
    THEN NotWellFormed
    ELSE votesFile(doc)

\* doPost is called: request.getParameter("voterId"), ("candidate").
doPostCalled ==
    /\ Len(servlet.requests) < MaxRequests
    /\ \E voterId \in VoterIds, candidate \in Candidates :
          servlet' = [servlet EXCEPT !.requests = Append(@,
                        [ voterId |-> voterId, candidate |-> candidate,
                          pc |-> "called", doc |-> <<>>, response |-> "none",
                          recorded |-> recorded(servlet.file, voterId) ])]
    /\ UNCHANGED <<storeVars, clockVars, activeTab, formVars, envVars, orphans,
                   viewVars, serviceVars>>

\* doPost from file.exists() to root.appendChild(vote): the document is new
\* or parsed from the file; a voter found in it is answered 'You have already
\* voted!', otherwise the vote is appended to the document in memory.  A
\* file that does not parse throws, and the catch block prints the stack
\* trace and answers nothing.
doPostParsed ==
    /\ \E i \in 1..Len(servlet.requests) :
          LET r == servlet.requests[i]
              doc == IF servlet.file.exists THEN servlet.file.votes ELSE <<>>
          IN  /\ r.pc = "called"
              /\ servlet' = [servlet EXCEPT !.requests[i] =
                    IF servlet.file.exists /\ ~servlet.file.wellFormed
                    THEN [r EXCEPT !.pc = "done", !.response = "exception"]
                    ELSE IF alreadyVoted(doc, r.voterId)
                    THEN [r EXCEPT !.pc = "done",
                                   !.response = "You have already voted!"]
                    ELSE [r EXCEPT !.pc = "appended",
                                   !.doc = Append(doc, [ voterId |-> r.voterId,
                                                         candidate |-> r.candidate ])]]
    /\ UNCHANGED <<storeVars, clockVars, activeTab, formVars, envVars, orphans,
                   viewVars, serviceVars>>

\* transformer.transform(input, output), the output stream is opened on the
\* file: the file exists and is empty.
doPostOpened ==
    /\ \E i \in 1..Len(servlet.requests) :
          /\ servlet.requests[i].pc = "appended"
          /\ servlet' = [servlet EXCEPT !.requests[i].pc = "opened",
                                        !.file = NotWellFormed]
    /\ UNCHANGED <<storeVars, clockVars, activeTab, formVars, envVars, orphans,
                   viewVars, serviceVars>>

\* transformer.transform(input, output), the document is written and the
\* stream closed; response.sendRedirect("result.jsp").
doPostWritten ==
    /\ \E i \in 1..Len(servlet.requests) :
          /\ servlet.requests[i].pc = "opened"
          /\ servlet' = [servlet EXCEPT
                            !.requests[i].pc = "done",
                            !.requests[i].response = "result.jsp",
                            !.file = written(servlet.file, servlet.requests[i].doc)]
    /\ UNCHANGED <<storeVars, clockVars, activeTab, formVars, envVars, orphans,
                   viewVars, serviceVars>>

NextServlet ==
    \/ doPostCalled
    \/ doPostParsed
    \/ doPostOpened
    \/ doPostWritten

InitServlet == Init /\ navigatorGeolocation

SpecServlet == InitServlet /\ [][NextServlet]_vars

\* C30: whatever the interleaving of the requests, the votes file holds at
\* most one vote per voterId, and a request whose voterId was recorded in the
\* file when it arrived is answered 'You have already voted!' and writes
\* nothing: it never gets as far as appending its vote, opening the file or
\* being redirected.
C30_OneVotePerVoter ==
    /\ (servlet.file.exists /\ servlet.file.wellFormed) =>
          \A i, j \in 1..Len(servlet.file.votes) :
              servlet.file.votes[i].voterId = servlet.file.votes[j].voterId => i = j
    /\ \A i \in 1..Len(servlet.requests) :
          LET r == servlet.requests[i]
          IN  r.recorded =>
                  \/ r.pc = "called"
                  \/ r.pc = "done" /\ r.response = "You have already voted!"

\* Two requests of one voter naming different candidates have both read the
\* file before either wrote it: both were redirected to the result page, and
\* the file holds the vote of the one that wrote last.
C30_BothAccepted ==
    \E i, j \in 1..Len(servlet.requests) :
        /\ i < j
        /\ servlet.requests[i].voterId = servlet.requests[j].voterId
        /\ servlet.requests[i].candidate # servlet.requests[j].candidate
        /\ servlet.requests[i].response = "result.jsp"
        /\ servlet.requests[j].response = "result.jsp"
        /\ servlet.file = votesFile(servlet.requests[i].doc)

====
